---- MODULE Spec2Model ----
(***************************************************************************)
(* net::MemoryPool (src/net/src/memory_pool.h): a 64-slot lock-free page   *)
(* directory (atomic occupancy word bits_ over a lazily filled pages_      *)
(* array) with an overflow path (AllocateExtend).  Threads call Allocate   *)
(* and Deallocate concurrently; every access to bits_ is one step.         *)
(***************************************************************************)
EXTENDS Integers, FiniteSets

\* ------------------------------------------------------------------ bounds
\* number of slots of the directory (64 in the source, scaled down)
NSlots == 2
\* number of threads that allocate and release; one more thread only releases
NThreads == 2
\* number of raw blocks the underlying allocator can hand out
MaxBlocks == 3
\* cap of the history counters fails/chg
MaxCount == 3

\* --------------------------------------------------------- program constants
\* MemoryPool() : MemoryPool(512)
PageSize == 512
\* pageOffset_ = sizeof(uint8_t)
PageOffset == 1
\* extendFlag_ = 0xFF
ExtendFlag == 255
\* alignment of the blocks std::malloc returns
MallocAlign == 16

NULL == 0
Slots == 0 .. (NSlots - 1)
\* thread 0 only calls Deallocate, threads 1..NThreads call both
Threads == 0 .. NThreads
Allocators == 1 .. NThreads
\* addresses the raw allocator can return
RawAddrs == {MallocAlign * k : k \in 1 .. MaxBlocks}
\* sizeof(T) of the types allocated: one that fits a page exactly, one too big
Sizes == {PageSize, PageSize + 1}
\* content of a byte of a block that is not allocated, or not written yet
Indeterminate == -1
\* origin of an object handed out by the overflow path: no slot index
Ext == NSlots
\* the values the constructor argument takes (Point(3, 4))
Args == {3, 4}
\* alignof(T) of the types allocated: a char array, a type with a pointer or
\* int64_t member
Aligns == {1, 8}
\* the addresses an object can be constructed at
Payloads == {raw + PageOffset : raw \in RawAddrs}

VARIABLES
  bits,     \* bits_: the set of bit positions that are 1
  pages,    \* pages_[i]: payload address of page i, or NULL
  heap,     \* raw blocks currently allocated by malloc/aligned_alloc
  head,     \* head[a]: the byte stored at raw address a (the page head)
  objs,     \* objects constructed and not yet destructed: [addr, from]
  alive,    \* FALSE once ~MemoryPool has run
  pc,       \* pc[t]: where thread t is
  sz,       \* sz[t]: sizeof(T) of the call thread t is in (0 when idle)
  idx,      \* idx[t]: the loop variable i of Allocate
  bit,      \* bit[t]: the local copy `bit` of bits_ in Allocate
  ptr,      \* ptr[t]: the pointer being deallocated
  hist,     \* history: the last two completed calls, when alloc then dealloc of one slot
  fails,    \* history: failed compare_exchange_strong of the call in progress
  chg,      \* history: changes of bits_ by other threads during the call
  fullSeen, \* history: bits_ had every bit set at some instant of the call
  freeAll,  \* history: slots whose bit was unset at every instant of the call
  nPageAlloc, \* history: number of std::malloc calls made for pages
  nAlloc,   \* history: number of Allocate calls that returned an object of a slot
  extFreed, \* history: a Deallocate has released the block of an overflow object
  arg,      \* arg[t]: the constructor argument of the Allocate call of thread t
  field,    \* field[p]: the content of the payload at address p (the field of T)
  over,     \* history: the content the last construction has overwritten
  al        \* al[t]: alignof(T) of the Allocate call of thread t

\* the history of the lifetime of the blocks
life == <<nAlloc, extFreed>>
\* the type T of the calls and the content of the objects
typed == <<arg, field, over, al>>
ghost == <<hist, fails, chg, fullSeen, freeAll, life, typed>>
vars == <<bits, pages, heap, head, objs, alive, pc, sz, idx, bit, ptr,
          hist, fails, chg, fullSeen, freeAll, nPageAlloc, life, typed>>

\* ------------------------------------------------------------- pure helpers
\* faulty variant (SizeExceedsOrEqual): sizeof(T) >= pageSize_
SizeExceedsOrEqual(s) == IF PageSize < 0 THEN FALSE ELSE s >= PageSize
\* line 52: sizeof(T) > pageSize_.  sizeof(T) is a size_t and pageSize_ an
\* int64_t, so pageSize_ is converted to unsigned: a negative pageSize_ becomes
\* a value above every sizeof(T)
SizeExceeds(s) == IF PageSize < 0 THEN FALSE ELSE s > PageSize
\* faulty variant (LoopDonePast): the loop runs while i <= 64
LoopDonePast(i) == i > NSlots
\* line 58: the loop condition i < 64 is false
LoopDone(i) == i >= NSlots
\* faulty variant (BitSetAlways): the test reads every bit as set
BitSetAlways(b, i) == TRUE
\* line 60 / 71: bit & _bit
BitSet(b, i) == i \in b
\* faulty variant (CasNever): the exchange reports a failure whatever bits_ holds
CasNever(cur, expected) == FALSE
\* faulty variant (CasBlind): the exchange stores without comparing
CasBlind(cur, expected) == TRUE
\* line 61: compare_exchange_strong succeeds iff bits_ equals the expected value
CasOk(cur, expected) == cur = expected
\* faulty variant (OrBitOnly): the desired value is _bit alone
OrBitOnly(b, i) == {i}
\* line 61: the desired value bit | _bit
OrBit(b, i) == b \cup {i}
\* faulty variant (FetchAndAll): the operand is 0, every bit is cleared
FetchAndAll(b, index) == {}
\* faulty variant (FetchAndNoNot): the operand misses its complement, fetch_and(1ull << index)
FetchAndNoNot(b, index) == b \cap {index}
\* faulty variant (FetchAndBelow): the bit below the page's own is cleared
FetchAndBelow(b, index) == b \ {index - 1}
\* line 96: bits_.fetch_and(~(1ull << index))
FetchAnd(b, index) == b \ {index}
\* faulty variant (PageHeadFlag): the head is stamped with the overflow flag
PageHeadFlag(i) == ExtendFlag
\* line 65: uint8_t(i)
PageHead(i) == i % 256
\* faulty variant (NeedsPageAlways): a page is allocated on every claim
NeedsPageAlways(p) == TRUE
\* line 62: !pages_[i]
NeedsPage(p) == p = NULL
\* line 64-66 / 103-105: the payload starts one head past the raw block
Payload(raw) == raw + PageOffset
\* line 87 / 44-45: the raw block of a payload address
RawOf(p) == p - PageOffset
\* std::malloc / std::aligned_alloc: any block not currently allocated
FreeRaw(h) == RawAddrs \ h
\* the mask with every bit set
Full == Slots
\* line 102: address p satisfies the alignment requirement a
AlignedTo(p, a) == p % a = 0
\* faulty variant (ConstructedIfFresh): a page that held an object keeps its content
ConstructedIfFresh(old, v) == IF old = Indeterminate THEN v ELSE old
\* line 68 / 105: new (p) T(std::forward<Args>(args)...): the field of the new
\* object is the argument, whatever the storage held
Constructed(old, v) == v

\* ------------------------------------------------------------------- Init
Init ==
  /\ bits = {}
  /\ pages = [i \in Slots |-> NULL]
  /\ heap = {}
  /\ head = [a \in RawAddrs |-> Indeterminate]
  /\ objs = {}
  /\ alive = TRUE
  /\ pc = [t \in Threads |-> "idle"]
  /\ sz = [t \in Threads |-> 0]
  /\ idx = [t \in Threads |-> 0]
  /\ bit = [t \in Threads |-> {}]
  /\ ptr = [t \in Threads |-> NULL]
  /\ hist = <<"none", 0, NULL>>
  /\ fails = [t \in Threads |-> 0]
  /\ chg = [t \in Threads |-> 0]
  /\ fullSeen = [t \in Threads |-> FALSE]
  /\ freeAll = [t \in Threads |-> {}]
  /\ nPageAlloc = 0
  /\ nAlloc = 0
  /\ extFreed = FALSE
  /\ arg = [t \in Threads |-> 0]
  /\ field = [p \in Payloads |-> Indeterminate]
  /\ over = Indeterminate
  /\ al = [t \in Threads |-> 0]

\* ---------------------------------------------------------------- Allocate
\* line 51-54: entry of Allocate<T>, sizeof(T) = s
AllocBegin(t, s) ==
  /\ alive /\ pc[t] = "idle" /\ t \in Allocators
  /\ sz' = [sz EXCEPT ![t] = s]
  /\ pc' = [pc EXCEPT ![t] = IF SizeExceeds(s) THEN "ext" ELSE "load"]
  /\ UNCHANGED <<nPageAlloc, bits, pages, heap, head, objs, alive, idx, bit, ptr>>

\* line 57-58: auto bit = bits_.load(); i = 0
Load(t) ==
  /\ pc[t] = "load"
  /\ bit' = [bit EXCEPT ![t] = bits]
  /\ idx' = [idx EXCEPT ![t] = 0]
  /\ pc' = [pc EXCEPT ![t] = "loop"]
  /\ UNCHANGED <<nPageAlloc, bits, pages, heap, head, objs, alive, sz, ptr>>

\* line 58-60, 76, 81: the loop head and the test of the local copy
Loop(t) ==
  /\ pc[t] = "loop"
  /\ IF LoopDone(idx[t])
       THEN /\ pc' = [pc EXCEPT ![t] = "ext"]
            /\ UNCHANGED idx
       ELSE IF BitSet(bit[t], idx[t])
              THEN /\ idx' = [idx EXCEPT ![t] = idx[t] + 1]
                   /\ UNCHANGED pc
              ELSE /\ pc' = [pc EXCEPT ![t] = "cas"]
                   /\ UNCHANGED idx
  /\ UNCHANGED <<nPageAlloc, bits, pages, heap, head, objs, alive, sz, bit, ptr>>

\* line 61: bits_.compare_exchange_strong(bit, bit | _bit)
Cas(t) ==
  /\ pc[t] = "cas"
  /\ IF CasOk(bits, bit[t])
       THEN /\ bits' = OrBit(bit[t], idx[t])
            /\ pc' = [pc EXCEPT ![t] = "page"]
            /\ UNCHANGED bit
       ELSE /\ bit' = [bit EXCEPT ![t] = bits]
            /\ pc' = [pc EXCEPT ![t] = "reload"]
            /\ UNCHANGED bits
  /\ UNCHANGED <<nPageAlloc, pages, heap, head, objs, alive, sz, idx, ptr>>

\* faulty variant (ReloadAlwaysAdvances): after a failed exchange the scan moves
\* on to the next bit without testing the reloaded mask
ReloadAlwaysAdvances(t) ==
  /\ pc[t] = "reload"
  /\ bit' = [bit EXCEPT ![t] = bits]
  /\ idx' = [idx EXCEPT ![t] = idx[t] + 1]
  /\ pc' = [pc EXCEPT ![t] = "loop"]
  /\ UNCHANGED <<nPageAlloc, bits, pages, heap, head, objs, alive, sz, ptr>>

\* line 70-76: bit = bits_.load(); continue if bit i is unset, else ++i
Reload(t) ==
  /\ pc[t] = "reload"
  /\ bit' = [bit EXCEPT ![t] = bits]
  /\ idx' = [idx EXCEPT ![t] = IF BitSet(bits, idx[t]) THEN idx[t] + 1 ELSE idx[t]]
  /\ pc' = [pc EXCEPT ![t] = "loop"]
  /\ UNCHANGED <<nPageAlloc, bits, pages, heap, head, objs, alive, sz, ptr>>

\* line 62-67: the page of slot i is not allocated yet
Materialize(t) ==
  /\ pc[t] = "page"
  /\ NeedsPage(pages[idx[t]])
  /\ \E a \in FreeRaw(heap) :
       /\ heap' = heap \cup {a}
       /\ head' = [head EXCEPT ![a] = PageHead(idx[t])]
       /\ pages' = [pages EXCEPT ![idx[t]] = Payload(a)]
  /\ pc' = [pc EXCEPT ![t] = "cons"]
  /\ nPageAlloc' = nPageAlloc + 1
  /\ UNCHANGED <<bits, objs, alive, sz, idx, bit, ptr>>

\* line 62, 68: return new (pages_[i]) T(args...)
Construct(t) ==
  /\ \/ pc[t] = "cons"
     \/ pc[t] = "page" /\ ~NeedsPage(pages[idx[t]])
  /\ objs' = objs \cup {[addr |-> pages[idx[t]], from |-> idx[t]]}
  /\ pc' = [pc EXCEPT ![t] = "idle"]
  /\ sz' = [sz EXCEPT ![t] = 0]
  /\ idx' = [idx EXCEPT ![t] = 0]
  /\ bit' = [bit EXCEPT ![t] = {}]
  /\ UNCHANGED <<nPageAlloc, bits, pages, heap, head, alive, ptr>>

\* line 100-106: AllocateExtend<T>
AllocateExtend(t) ==
  /\ pc[t] = "ext"
  /\ \E a \in FreeRaw(heap) :
       /\ heap' = heap \cup {a}
       /\ head' = [head EXCEPT ![a] = ExtendFlag]
       /\ objs' = objs \cup {[addr |-> Payload(a), from |-> Ext]}
  /\ pc' = [pc EXCEPT ![t] = "idle"]
  /\ sz' = [sz EXCEPT ![t] = 0]
  /\ idx' = [idx EXCEPT ![t] = 0]
  /\ bit' = [bit EXCEPT ![t] = {}]
  /\ UNCHANGED <<nPageAlloc, bits, pages, alive, ptr>>

\* -------------------------------------------------------------- Deallocate
\* faulty variant (DeallocBeginClears): the bit of the slot is cleared before the
\* destructor runs
DeallocBeginClears(t, o) ==
  /\ alive /\ pc[t] = "idle"
  /\ o \in objs
  /\ objs' = objs \ {o}
  /\ bits' = bits \ {o.from}
  /\ ptr' = [ptr EXCEPT ![t] = o.addr]
  /\ pc' = [pc EXCEPT ![t] = "head"]
  /\ UNCHANGED <<nPageAlloc, pages, heap, head, alive, sz, idx, bit>>

\* line 85-88: entry of Deallocate<T>(ptr) and the destructor call; the caller
\* passes a pointer Allocate returned and that was not deallocated since
DeallocBegin(t, o) ==
  /\ alive /\ pc[t] = "idle"
  /\ o \in objs
  /\ objs' = objs \ {o}
  /\ ptr' = [ptr EXCEPT ![t] = o.addr]
  /\ pc' = [pc EXCEPT ![t] = "head"]
  /\ UNCHANGED <<nPageAlloc, bits, pages, heap, head, alive, sz, idx, bit>>

\* faulty variant (DeallocExtendKeeps): the overflow branch returns without
\* std::free(page)
DeallocExtendKeeps(t) ==
  /\ pc[t] = "head"
  /\ head[RawOf(ptr[t])] = ExtendFlag
  /\ pc' = [pc EXCEPT ![t] = "idle"]
  /\ ptr' = [ptr EXCEPT ![t] = NULL]
  /\ UNCHANGED <<nPageAlloc, bits, pages, heap, head, objs, alive, sz, idx, bit>>

\* line 90-93: the page head is 0xFF: std::free(page)
DeallocExtend(t) ==
  /\ pc[t] = "head"
  /\ head[RawOf(ptr[t])] = ExtendFlag
  /\ heap' = heap \ {RawOf(ptr[t])}
  /\ head' = [head EXCEPT ![RawOf(ptr[t])] = Indeterminate]
  /\ pc' = [pc EXCEPT ![t] = "idle"]
  /\ ptr' = [ptr EXCEPT ![t] = NULL]
  /\ UNCHANGED <<nPageAlloc, bits, pages, objs, alive, sz, idx, bit>>

\* faulty variant (DeallocSlotWaits): the bit is cleared only once no other
\* thread is between its load of bits_ and its compare-and-set
DeallocSlotWaits(t) ==
  /\ pc[t] = "head"
  /\ head[RawOf(ptr[t])] # ExtendFlag
  /\ \A u \in Threads \ {t} : pc[u] \notin {"loop", "cas", "reload"}
  /\ bits' = FetchAnd(bits, head[RawOf(ptr[t])])
  /\ pc' = [pc EXCEPT ![t] = "idle"]
  /\ ptr' = [ptr EXCEPT ![t] = NULL]
  /\ UNCHANGED <<nPageAlloc, pages, heap, head, objs, alive, sz, idx, bit>>

\* line 95-96: index = *page; bits_.fetch_and(~(1ull << index))
DeallocSlot(t) ==
  /\ pc[t] = "head"
  /\ head[RawOf(ptr[t])] # ExtendFlag
  /\ bits' = FetchAnd(bits, head[RawOf(ptr[t])])
  /\ pc' = [pc EXCEPT ![t] = "idle"]
  /\ ptr' = [ptr EXCEPT ![t] = NULL]
  /\ UNCHANGED <<nPageAlloc, pages, heap, head, objs, alive, sz, idx, bit>>

\* ------------------------------------------------------------- ~MemoryPool
\* faulty variant (TeardownDestructs): the objects still in the slots are destructed
TeardownDestructs ==
  /\ alive
  /\ \A t \in Threads : pc[t] = "idle"
  /\ alive' = FALSE
  /\ objs' = {o \in objs : o.from = Ext}
  /\ heap' = heap \ {RawOf(pages[i]) : i \in {j \in Slots : pages[j] # NULL}}
  /\ head' = [a \in RawAddrs |->
               IF \E i \in Slots : pages[i] # NULL /\ a = RawOf(pages[i])
                 THEN Indeterminate ELSE head[a]]
  /\ UNCHANGED <<nPageAlloc, bits, pages, pc, sz, idx, bit, ptr>>

\* faulty variant (TeardownIdleOnly): only the pages whose bit is clear are freed
TeardownIdleOnly ==
  /\ alive
  /\ \A t \in Threads : pc[t] = "idle"
  /\ alive' = FALSE
  /\ heap' = heap \ {RawOf(pages[i]) : i \in {j \in Slots \ bits : pages[j] # NULL}}
  /\ head' = [a \in RawAddrs |->
               IF \E i \in Slots \ bits : pages[i] # NULL /\ a = RawOf(pages[i])
                 THEN Indeterminate ELSE head[a]]
  /\ UNCHANGED <<nPageAlloc, bits, pages, objs, pc, sz, idx, bit, ptr>>

\* line 41-48: free every materialised page; no call is in progress
Teardown ==
  /\ alive
  /\ \A t \in Threads : pc[t] = "idle"
  /\ alive' = FALSE
  /\ heap' = heap \ {RawOf(pages[i]) : i \in {j \in Slots : pages[j] # NULL}}
  /\ head' = [a \in RawAddrs |->
               IF \E i \in Slots : pages[i] # NULL /\ a = RawOf(pages[i])
                 THEN Indeterminate ELSE head[a]]
  /\ UNCHANGED <<nPageAlloc, bits, pages, objs, pc, sz, idx, bit, ptr>>

\* ----------------------------------------------------------- specification
\* the history variables are not recorded
Quiet == UNCHANGED ghost

Next ==
  \/ \E t \in Allocators, s \in Sizes : AllocBegin(t, s) /\ Quiet
  \/ \E t \in Threads : Load(t) /\ Quiet
  \/ \E t \in Threads : Loop(t) /\ Quiet
  \/ \E t \in Threads : Cas(t) /\ Quiet
  \/ \E t \in Threads : Reload(t) /\ Quiet
  \/ \E t \in Threads : Materialize(t) /\ Quiet
  \/ \E t \in Threads : Construct(t) /\ Quiet
  \/ \E t \in Threads : AllocateExtend(t) /\ Quiet
  \/ \E t \in Threads, o \in objs : DeallocBegin(t, o) /\ Quiet
  \/ \E t \in Threads : DeallocExtend(t) /\ Quiet
  \/ \E t \in Threads : DeallocSlot(t) /\ Quiet
  \/ Teardown /\ Quiet

Spec == Init /\ [][Next]_vars

\* ------------------------------------------------- sequential executions
\* the calls do not overlap: a thread steps only while every other one is idle
Solo(t) == \A u \in Threads \ {t} : pc[u] = "idle"

\* hist after a step of t: <<"alloc", i, p>> when the last completed call is an
\* Allocate that returned p from slot i, <<"free", i, p>> when the last two are
\* that Allocate and the Deallocate of p
SeqHist(t) ==
  /\ hist' = IF pc'[t] # "idle" THEN hist
             ELSE IF pc[t] \in {"page", "cons"}
                    THEN <<"alloc", idx[t], pages[idx[t]]>>
             ELSE IF pc[t] = "head" /\ hist[1] = "alloc" /\ hist[3] = ptr[t]
                       /\ bits' # bits
                    THEN <<"free", hist[2], hist[3]>>
             ELSE <<"none", 0, NULL>>
  /\ UNCHANGED <<fails, chg, fullSeen, freeAll, life, typed>>

\* Reload is no step of a sequential execution: compare_exchange_strong fails
\* only when another thread changed bits_ after the load
NextSeq ==
  \/ \E t \in Allocators, s \in Sizes : AllocBegin(t, s) /\ Solo(t) /\ SeqHist(t)
  \/ \E t \in Threads : Load(t) /\ Solo(t) /\ SeqHist(t)
  \/ \E t \in Threads : Loop(t) /\ Solo(t) /\ SeqHist(t)
  \/ \E t \in Threads : Cas(t) /\ Solo(t) /\ SeqHist(t)
  \/ \E t \in Threads : Materialize(t) /\ Solo(t) /\ SeqHist(t)
  \/ \E t \in Threads : Construct(t) /\ Solo(t) /\ SeqHist(t)
  \/ \E t \in Threads : AllocateExtend(t) /\ Solo(t) /\ SeqHist(t)
  \/ \E t \in Threads, o \in objs : DeallocBegin(t, o) /\ Solo(t) /\ SeqHist(t)
  \/ \E t \in Threads : DeallocExtend(t) /\ Solo(t) /\ SeqHist(t)
  \/ \E t \in Threads : DeallocSlot(t) /\ Solo(t) /\ SeqHist(t)
  \/ Teardown /\ UNCHANGED ghost

SpecSeq == Init /\ [][NextSeq]_vars

\* ------------------------------------------ executions with recorded history
Scanning(p) == p \in {"loop", "cas", "reload"}
InAllocate(p) == p \in {"load", "loop", "cas", "reload", "page", "cons", "ext"}
Bump(n) == IF n < MaxCount THEN n + 1 ELSE MaxCount

\* the retry history of every call in progress after a step of thread t:
\* fails counts the failed compare-and-sets of the scan, chg the changes other
\* threads made to bits_ since the scan's first load
Retries(t) ==
  /\ fails' = [u \in Threads |->
                 IF ~Scanning(pc'[u]) THEN 0
                 ELSE IF u = t /\ pc[t] = "cas" /\ pc'[t] = "reload" THEN Bump(fails[u])
                 ELSE fails[u]]
  /\ chg' = [u \in Threads |->
               IF ~Scanning(pc'[u]) THEN 0
               ELSE IF u # t /\ bits' # bits THEN Bump(chg[u])
               ELSE chg[u]]
  /\ UNCHANGED <<hist, fullSeen, freeAll, life, typed>>

NextRetry ==
  \/ \E t \in Allocators, s \in Sizes : AllocBegin(t, s) /\ Retries(t)
  \/ \E t \in Threads : Load(t) /\ Retries(t)
  \/ \E t \in Threads : Loop(t) /\ Retries(t)
  \/ \E t \in Threads : Cas(t) /\ Retries(t)
  \/ \E t \in Threads : Reload(t) /\ Retries(t)
  \/ \E t \in Threads : Materialize(t) /\ Retries(t)
  \/ \E t \in Threads : Construct(t) /\ Retries(t)
  \/ \E t \in Threads : AllocateExtend(t) /\ Retries(t)
  \/ \E t \in Threads, o \in objs : DeallocBegin(t, o) /\ Retries(t)
  \/ \E t \in Threads : DeallocExtend(t) /\ Retries(t)
  \/ \E t \in Threads : DeallocSlot(t) /\ Retries(t)
  \/ Teardown /\ UNCHANGED ghost

SpecRetry == Init /\ [][NextRetry]_vars

\* what every call in progress with sizeof(T) <= pageSize_ has seen of bits_,
\* from its entry on, after a step of thread t
Seen(t) ==
  /\ fullSeen' = [u \in Threads |->
                    IF ~InAllocate(pc'[u]) \/ SizeExceeds(sz'[u]) THEN FALSE
                    ELSE IF pc[u] = "idle" THEN bits' = Full
                    ELSE fullSeen[u] \/ bits' = Full]
  /\ freeAll' = [u \in Threads |->
                   IF ~InAllocate(pc'[u]) \/ SizeExceeds(sz'[u]) THEN {}
                   ELSE IF pc[u] = "idle" THEN Slots \ bits'
                   ELSE freeAll[u] \ bits']
  /\ UNCHANGED <<hist, fails, chg, life, typed>>

NextSeen ==
  \/ \E t \in Allocators, s \in Sizes : AllocBegin(t, s) /\ Seen(t)
  \/ \E t \in Threads : Load(t) /\ Seen(t)
  \/ \E t \in Threads : Loop(t) /\ Seen(t)
  \/ \E t \in Threads : Cas(t) /\ Seen(t)
  \/ \E t \in Threads : Reload(t) /\ Seen(t)
  \/ \E t \in Threads : Materialize(t) /\ Seen(t)
  \/ \E t \in Threads : Construct(t) /\ Seen(t)
  \/ \E t \in Threads : AllocateExtend(t) /\ Seen(t)
  \/ \E t \in Threads, o \in objs : DeallocBegin(t, o) /\ Seen(t)
  \/ \E t \in Threads : DeallocExtend(t) /\ Seen(t)
  \/ \E t \in Threads : DeallocSlot(t) /\ Seen(t)
  \/ Teardown /\ UNCHANGED ghost

SpecSeen == Init /\ [][NextSeen]_vars

\* ------------------------------------- executions with the blocks' history
\* after a step of thread t: nAlloc counts the Allocate calls that returned an
\* object of a slot, extFreed tells that Deallocate released an overflow block
LifeHist(t) ==
  /\ nAlloc' = IF pc[t] \in {"page", "cons"} /\ pc'[t] = "idle"
                 THEN Bump(nAlloc) ELSE nAlloc
  /\ extFreed' = (extFreed \/ (pc[t] = "head" /\ heap' # heap))
  /\ UNCHANGED <<hist, fails, chg, fullSeen, freeAll, typed>>

NextLife ==
  \/ \E t \in Allocators, s \in Sizes : AllocBegin(t, s) /\ LifeHist(t)
  \/ \E t \in Threads : Load(t) /\ LifeHist(t)
  \/ \E t \in Threads : Loop(t) /\ LifeHist(t)
  \/ \E t \in Threads : Cas(t) /\ LifeHist(t)
  \/ \E t \in Threads : Reload(t) /\ LifeHist(t)
  \/ \E t \in Threads : Materialize(t) /\ LifeHist(t)
  \/ \E t \in Threads : Construct(t) /\ LifeHist(t)
  \/ \E t \in Threads : AllocateExtend(t) /\ LifeHist(t)
  \/ \E t \in Threads, o \in objs : DeallocBegin(t, o) /\ LifeHist(t)
  \/ \E t \in Threads : DeallocExtend(t) /\ LifeHist(t)
  \/ \E t \in Threads : DeallocSlot(t) /\ LifeHist(t)
  \/ Teardown /\ UNCHANGED ghost

SpecLife == Init /\ [][NextLife]_vars

\* ------------------------------------ executions where the allocator fails
\* std::malloc / std::aligned_alloc return a null pointer, which the code does
\* not test: the write of the page head through it (line 65 / 104) is undefined.
\* The store either traps, which ends the process, or does not (page 0 is
\* mapped, or the build has no memory protection) and the call goes on.

\* line 63-65: std::malloc returns null, the store of the head traps
MaterializeNullTraps(t) ==
  /\ pc[t] = "page"
  /\ NeedsPage(pages[idx[t]])
  /\ pc' = [pc EXCEPT ![t] = "fatal"]
  /\ UNCHANGED <<nPageAlloc, bits, pages, heap, head, objs, alive, sz, idx, bit, ptr>>

\* line 63-66: std::malloc returns null, the store does not trap:
\* pages_[i] = ++page is the null address plus one head
MaterializeNullGoesOn(t) ==
  /\ pc[t] = "page"
  /\ NeedsPage(pages[idx[t]])
  /\ pages' = [pages EXCEPT ![idx[t]] = Payload(NULL)]
  /\ pc' = [pc EXCEPT ![t] = "cons"]
  /\ UNCHANGED <<nPageAlloc, bits, heap, head, objs, alive, sz, idx, bit, ptr>>

\* line 102-104: std::aligned_alloc returns null, the store of the head traps
ExtendNullTraps(t) ==
  /\ pc[t] = "ext"
  /\ pc' = [pc EXCEPT ![t] = "fatal"]
  /\ UNCHANGED <<nPageAlloc, bits, pages, heap, head, objs, alive, sz, idx, bit, ptr>>

\* line 102-105: std::aligned_alloc returns null, the store does not trap:
\* the object is constructed at the null address plus one head and returned
ExtendNullGoesOn(t) ==
  /\ pc[t] = "ext"
  /\ objs' = objs \cup {[addr |-> Payload(NULL), from |-> Ext]}
  /\ pc' = [pc EXCEPT ![t] = "idle"]
  /\ sz' = [sz EXCEPT ![t] = 0]
  /\ idx' = [idx EXCEPT ![t] = 0]
  /\ bit' = [bit EXCEPT ![t] = {}]
  /\ UNCHANGED <<nPageAlloc, bits, pages, heap, head, alive, ptr>>

\* the process runs: no store has trapped
Running == \A t \in Threads : pc[t] # "fatal"
\* the caller deallocates the objects it was handed in an allocated block
Valid(o) == RawOf(o.addr) \in RawAddrs

NextFail ==
  \/ \E t \in Allocators, s \in Sizes : AllocBegin(t, s) /\ Running /\ Quiet
  \/ \E t \in Threads : Load(t) /\ Running /\ Quiet
  \/ \E t \in Threads : Loop(t) /\ Running /\ Quiet
  \/ \E t \in Threads : Cas(t) /\ Running /\ Quiet
  \/ \E t \in Threads : Reload(t) /\ Running /\ Quiet
  \/ \E t \in Threads : Materialize(t) /\ Running /\ Quiet
  \/ \E t \in Threads : MaterializeNullTraps(t) /\ Running /\ Quiet
  \/ \E t \in Threads : MaterializeNullGoesOn(t) /\ Running /\ Quiet
  \/ \E t \in Threads : Construct(t) /\ Running /\ Quiet
  \/ \E t \in Threads : AllocateExtend(t) /\ Running /\ Quiet
  \/ \E t \in Threads : ExtendNullTraps(t) /\ Running /\ Quiet
  \/ \E t \in Threads : ExtendNullGoesOn(t) /\ Running /\ Quiet
  \/ \E t \in Threads, o \in objs : DeallocBegin(t, o) /\ Valid(o) /\ Running /\ Quiet
  \/ \E t \in Threads : DeallocExtend(t) /\ Running /\ Quiet
  \/ \E t \in Threads : DeallocSlot(t) /\ Running /\ Quiet
  \/ Teardown /\ Running /\ (\A i \in Slots : pages[i] # Payload(NULL)) /\ Quiet

SpecFail == Init /\ [][NextFail]_vars

\* ------------------------ sequential executions with the objects' content
\* after a step of thread t: the placement new of the step writes the field of
\* the new object from the argument of the call, the destructor of T leaves the
\* storage as it is, and the content of a released block is lost
Content(t) ==
  /\ field' = [p \in Payloads |->
                 IF \E o \in objs' \ objs : o.addr = p
                   THEN Constructed(field[p], arg[t])
                 ELSE IF RawOf(p) \in heap \ heap' THEN Indeterminate
                 ELSE field[p]]
  /\ over' = IF \E o \in objs' \ objs : o.addr \in Payloads
               THEN field[(CHOOSE o \in objs' \ objs : TRUE).addr]
               ELSE over
  /\ UNCHANGED <<hist, fails, chg, fullSeen, freeAll, life, al>>

\* the argument of the call lasts until the call returns
ArgKept(t) == arg' = [arg EXCEPT ![t] = IF pc'[t] = "idle" THEN 0 ELSE arg[t]]

\* the calls do not overlap (Reload is then no step, as in NextSeq): the page a
\* construction writes is the call's own under any interleaving
NextArgs ==
  \/ \E t \in Allocators, s \in Sizes, v \in Args :
       AllocBegin(t, s) /\ arg' = [arg EXCEPT ![t] = v] /\ Solo(t) /\ Content(t)
  \/ \E t \in Threads : Load(t) /\ ArgKept(t) /\ Solo(t) /\ Content(t)
  \/ \E t \in Threads : Loop(t) /\ ArgKept(t) /\ Solo(t) /\ Content(t)
  \/ \E t \in Threads : Cas(t) /\ ArgKept(t) /\ Solo(t) /\ Content(t)
  \/ \E t \in Threads : Materialize(t) /\ ArgKept(t) /\ Solo(t) /\ Content(t)
  \/ \E t \in Threads : Construct(t) /\ ArgKept(t) /\ Solo(t) /\ Content(t)
  \/ \E t \in Threads : AllocateExtend(t) /\ ArgKept(t) /\ Solo(t) /\ Content(t)
  \/ \E t \in Threads, o \in objs : DeallocBegin(t, o) /\ ArgKept(t) /\ Solo(t) /\ Content(t)
  \/ \E t \in Threads : DeallocExtend(t) /\ ArgKept(t) /\ Solo(t) /\ Content(t)
  \/ \E t \in Threads : DeallocSlot(t) /\ ArgKept(t) /\ Solo(t) /\ Content(t)
  \/ Teardown /\ UNCHANGED ghost

SpecArgs == Init /\ [][NextArgs]_vars

\* ------------------------------------ executions with the types' alignment
\* alignof(T) of the call lasts until the call returns
AlignKept(t) ==
  /\ al' = [al EXCEPT ![t] = IF pc'[t] = "idle" THEN 0 ELSE al[t]]
  /\ UNCHANGED <<hist, fails, chg, fullSeen, freeAll, life, arg, field, over>>

\* sizeof(T) is a multiple of alignof(T); the blocks std::malloc and
\* std::aligned_alloc(alignof(T), ...) return are aligned for T
NextAlign ==
  \/ \E t \in Allocators, s \in Sizes, a \in Aligns :
       /\ AlignedTo(s, a) /\ (\A r \in RawAddrs : AlignedTo(r, a))
       /\ AllocBegin(t, s) /\ al' = [al EXCEPT ![t] = a]
       /\ UNCHANGED <<hist, fails, chg, fullSeen, freeAll, life, arg, field, over>>
  \/ \E t \in Threads : Load(t) /\ AlignKept(t)
  \/ \E t \in Threads : Loop(t) /\ AlignKept(t)
  \/ \E t \in Threads : Cas(t) /\ AlignKept(t)
  \/ \E t \in Threads : Reload(t) /\ AlignKept(t)
  \/ \E t \in Threads : Materialize(t) /\ AlignKept(t)
  \/ \E t \in Threads : Construct(t) /\ AlignKept(t)
  \/ \E t \in Threads : AllocateExtend(t) /\ AlignKept(t)
  \/ \E t \in Threads, o \in objs : DeallocBegin(t, o) /\ AlignKept(t)
  \/ \E t \in Threads : DeallocExtend(t) /\ AlignKept(t)
  \/ \E t \in Threads : DeallocSlot(t) /\ AlignKept(t)
  \/ Teardown /\ UNCHANGED ghost

SpecAlign == Init /\ [][NextAlign]_vars

\* ------------------------------------------------------------------ claims
\* slot i holds a constructed, not yet destructed object
Live(i) == pages[i] # NULL /\ \E o \in objs : o.addr = pages[i]
\* thread t is inside a call that holds the claim on bit i: in Allocate after
\* the successful compare-and-set, or in Deallocate before the bit clear
Owns(t, i) ==
  \/ pc[t] \in {"page", "cons"} /\ idx[t] = i
  \/ pc[t] = "head" /\ pages[i] # NULL /\ ptr[t] = pages[i]

\* C1: under any interleaving of Allocate and Deallocate calls, a slot is
\* claimed by at most one caller at a time: from the successful compare-and-set
\* on bit i to the bit clear of Deallocate, no other call holds bit i and no
\* other object lives in the page of slot i; no two live objects share an
\* address, and every live object lies in an allocated block.
C1_ExclusiveSlot ==
  alive =>
    /\ \A i \in Slots : \A t \in Threads :
         Owns(t, i) =>
           /\ i \in bits
           /\ ~Live(i)
           /\ \A u \in Threads \ {t} : ~Owns(u, i)
    /\ \A o1 \in objs : \A o2 \in objs : o1.addr = o2.addr => o1 = o2
    /\ \A o \in objs : RawOf(o.addr) \in heap
    /\ \A i \in Slots : \A j \in Slots :
         pages[i] # NULL /\ pages[i] = pages[j] => i = j

\* C1 witness: slot 0 holds a live object, a second call has just claimed
\* slot 1 and a third one has lost a compare-and-set
C1_Witness ==
  /\ alive /\ Live(0)
  /\ \E t \in Threads : Owns(t, 1) /\ pc[t] = "page"
  /\ \E u \in Threads : pc[u] = "reload"

\* C2 (as stated): in every reachable state bit i is set iff slot i holds a
\* constructed, not yet destructed object.
C2_BitIffLive == alive => \A i \in Slots : (i \in bits) <=> Live(i)

\* C2 (amended): bit i is set iff slot i holds a live object or a call holds
\* the claim on it (Allocate between the compare-and-set and the construction,
\* Deallocate between the destructor and the bit clear); in those two windows
\* the bit is set and the slot holds no live object.
C2_BitIffLiveOrOwned ==
  alive =>
    \A i \in Slots :
      /\ (i \in bits) <=> (Live(i) \/ \E t \in Threads : Owns(t, i))
      /\ (\E t \in Threads : Owns(t, i)) => ~Live(i)

\* C2 witness: a Deallocate has run the destructor of the object of slot 0 and
\* has not cleared bit 0 yet, while slot 1 holds a live object
C2_Witness ==
  /\ alive /\ 0 \in bits /\ ~Live(0) /\ Live(1)
  /\ \E t \in Threads : pc[t] = "head" /\ Owns(t, 0)

\* C3 (as stated): an Allocate call ends within a bounded number of its own
\* steps whatever the other threads do: it fails at most one compare-and-set
\* per slot (64 retries) before it claims a slot or takes the overflow path.
C3_AtMostNSlotsRetries == \A t \in Threads : fails[t] <= NSlots

\* C3 (amended): the scan index of a call never passes the number of slots, and
\* the number of compare-and-sets a call has failed never exceeds the number of
\* changes other threads made to the mask since the call first read it: the
\* retries are bounded by the other threads' successful operations, not by 64.
C3_RetriesBoundedByChanges ==
  \A t \in Threads :
    /\ idx[t] <= NSlots
    /\ fails[t] <= chg[t]
    /\ pc[t] = "cas" => idx[t] < NSlots /\ ~BitSet(bit[t], idx[t])

\* C3 witness: a call has failed more compare-and-sets than there are slots and
\* is about to retry the bit it started with
C3_Witness ==
  \E t \in Threads : fails[t] > NSlots /\ pc[t] = "cas" /\ idx[t] = 0

Moved(t) == pc'[t] # pc[t] \/ idx'[t] # idx[t]
\* the step hands out a new overflow object: a fresh block, its head stamped
\* with the flag, at an address that is no slot page and no live object
NewOverflowObject ==
  \E o \in objs' \ objs :
    /\ objs' = objs \cup {o}
    /\ o.from = Ext
    /\ RawOf(o.addr) \notin heap /\ RawOf(o.addr) \in heap'
    /\ head'[RawOf(o.addr)] = ExtendFlag
    /\ \A i \in Slots : pages[i] # o.addr
    /\ \A x \in objs : x.addr # o.addr

\* C5: when every slot holds a live object (the mask the call reads is full), a
\* further Allocate with sizeof(T) <= pageCapacity attempts no compare-and-set,
\* goes through the scan to the overflow path without waiting for a bit to
\* clear, and returns an overflow object (head 0xFF) at an address distinct from
\* every slot page; none of its steps changes the mask or the slots array.
C5_FullPoolOverflows ==
  /\ [][\A t \in Threads :
          /\ (pc[t] = "load" /\ bits = Full /\ Moved(t)) =>
               /\ pc'[t] = "loop" /\ bit'[t] = Full
               /\ UNCHANGED <<bits, pages, heap, objs>>
          /\ (pc[t] = "loop" /\ bit[t] = Full /\ Moved(t)) =>
               /\ pc'[t] = IF idx[t] < NSlots THEN "loop" ELSE "ext"
               /\ bit'[t] = Full
               /\ UNCHANGED <<bits, pages, heap, objs>>
          /\ (pc[t] = "ext" /\ ~SizeExceeds(sz[t]) /\ Moved(t)) =>
               /\ pc'[t] = "idle"
               /\ NewOverflowObject
               /\ UNCHANGED <<bits, pages>>]_vars
  /\ [](\A t \in Threads :
          /\ (pc[t] = "loop" /\ bit[t] = Full) => ENABLED Loop(t)
          /\ (pc[t] = "ext" /\ FreeRaw(heap) # {}) => ENABLED AllocateExtend(t))

\* C5 witness: every slot holds a live object and a call that fits a page, which
\* read the full mask, has reached the overflow path
C5_Witness ==
  /\ alive /\ bits = Full /\ \A i \in Slots : Live(i)
  /\ \E t \in Threads : pc[t] = "ext" /\ sz[t] = PageSize /\ bit[t] = Full

\* C6: in an execution without concurrent calls, Allocate with sizeof(T) <=
\* pageCapacity claims the lowest-indexed free slot; an Allocate that follows
\* the Allocate and the Deallocate of an object of slot i claims slot i again,
\* at the same address, and allocates no page.
C6_LowestFreeSlotReused ==
  \A t \in Threads :
    /\ pc[t] = "page" => \A j \in Slots : j < idx[t] => j \in bits
    /\ hist[1] = "free" =>
         /\ pc[t] # "cons"
         /\ pc[t] = "page" =>
              idx[t] = hist[2] /\ pages[idx[t]] = hist[3] /\ ~NeedsPage(pages[idx[t]])

\* C6 witness: slot 0 is busy, an object was allocated in slot 1 and deallocated,
\* and the next Allocate has claimed slot 1 again
C6_Witness ==
  /\ hist[1] = "free" /\ hist[2] = 1 /\ Live(0)
  /\ \E t \in Threads : pc[t] = "page" /\ idx[t] = 1

\* C7: until the pool is destroyed a materialized slot keeps its page: no step
\* replaces pages_[i] or frees its block, a block is allocated for slot i only
\* while pages_[i] is null, so at most one block per slot is ever allocated.
C7_PageKept ==
  /\ [][alive' =>
          /\ \A i \in Slots :
               pages[i] # NULL =>
                 /\ pages'[i] = pages[i]
                 /\ RawOf(pages[i]) \in heap'
          /\ nPageAlloc' # nPageAlloc =>
               \E i \in Slots : pages[i] = NULL /\ pages'[i] # NULL]_vars
  /\ [](/\ nPageAlloc = Cardinality({i \in Slots : pages[i] # NULL})
        /\ nPageAlloc <= NSlots)

\* C7 witness: every slot is materialized and a call has claimed, for reuse, a
\* slot whose page exists already
C7_Witness ==
  /\ alive /\ nPageAlloc = NSlots
  /\ \E t \in Threads : pc[t] = "page" /\ pages[idx[t]] # NULL

\* C8: the byte before every object Allocate returned tells its origin: it is i
\* exactly when the object is the payload of pages_[i], and 0xFF exactly when
\* the object came from the overflow path; the head of a materialized page is
\* never rewritten.
C8_HeadTellsOrigin ==
  /\ [](alive =>
          \A o \in objs :
            /\ \A i \in Slots : (head[RawOf(o.addr)] = i) <=> (pages[i] = o.addr)
            /\ (head[RawOf(o.addr)] = ExtendFlag) <=> (o.from = Ext)
            /\ o.from \in Slots => pages[o.from] = o.addr)
  /\ [][alive' =>
          \A i \in Slots :
            pages[i] # NULL =>
              head'[RawOf(pages[i])] = head[RawOf(pages[i])]]_vars

\* C8 witness: an object of slot 1 and an overflow object are live together
C8_Witness ==
  /\ alive /\ Live(1)
  /\ \E o \in objs : o.from = Ext
  /\ \E o \in objs : o.from = 1 /\ head[RawOf(o.addr)] = 1

\* C9: the bit clear of Deallocate for an object of slot i removes bit i from
\* the mask as it is at that instant and changes nothing else: the other bits,
\* pages_, the page heads, the allocated blocks and the live objects stay.
C9_ClearsOnlyItsBit ==
  [][\A t \in Threads : \A i \in Slots :
       (pc[t] = "head" /\ ptr[t] = pages[i] /\ Moved(t)) =>
         /\ bits' = bits \ {i}
         /\ i \in bits
         /\ UNCHANGED <<pages, head, heap, objs>>]_vars

\* C9 witness: the bit of a materialized slot is clear again, its page still
\* allocated, while the other slot holds a live object and a third call is
\* about to attempt a compare-and-set
C9_Witness ==
  /\ alive
  /\ \E i \in Slots : \E j \in Slots \ {i} :
       /\ pages[i] # NULL /\ i \notin bits /\ RawOf(pages[i]) \in heap
       /\ j \in bits /\ Live(j)
  /\ \E t \in Threads : pc[t] = "cas"

\* C10: Allocate with sizeof(T) > pageCapacity goes straight to the overflow
\* path: it never reaches a step that reads or writes the mask or the slots
\* array, its steps leave both unchanged and the object it returns is at no
\* slot page; with sizeof(T) = pageCapacity the call takes the slot path.
C10_OversizeBypassesSlots ==
  /\ [](\A t \in Threads : sz[t] > PageSize => pc[t] = "ext")
  /\ [][\A t \in Threads :
          /\ (pc[t] = "idle" /\ sz'[t] # 0) =>
               /\ pc'[t] = IF sz'[t] > PageSize THEN "ext" ELSE "load"
               /\ UNCHANGED <<bits, pages, heap, objs>>
          /\ (pc[t] = "ext" /\ sz[t] > PageSize /\ Moved(t)) =>
               /\ pc'[t] = "idle"
               /\ NewOverflowObject
               /\ UNCHANGED <<bits, pages>>]_vars

\* C10 witness: a call with an oversize type is on the overflow path while a
\* call whose type fills a page exactly has claimed a slot
C10_Witness ==
  /\ \E t \in Threads : pc[t] = "ext" /\ sz[t] = PageSize + 1
  /\ \E u \in Threads : pc[u] = "page" /\ sz[u] = PageSize
  /\ \E i \in Slots : i \notin bits

\* C11: Deallocate of an overflow object (head 0xFF) releases the object's raw
\* block, which is allocated at that instant, and changes neither the mask nor
\* the slots array nor the live objects; the destructor step of such a call
\* changes no block either; an overflow block is the page of no slot at any
\* point of its life, and the block of a live overflow object stays allocated.
C11_OverflowReleasedOnce ==
  /\ [][\A t \in Threads :
          /\ (pc[t] = "head" /\ head[RawOf(ptr[t])] = ExtendFlag /\ Moved(t)) =>
               /\ RawOf(ptr[t]) \in heap
               /\ heap' = heap \ {RawOf(ptr[t])}
               /\ pc'[t] = "idle"
               /\ UNCHANGED <<bits, pages, objs>>
          /\ (pc[t] = "idle" /\ pc'[t] = "head"
                /\ head[RawOf(ptr'[t])] = ExtendFlag) =>
               /\ UNCHANGED <<bits, pages, heap, head>>
               /\ \E o \in objs : o.from = Ext /\ o.addr = ptr'[t] /\ objs' = objs \ {o}]_vars
  /\ [](alive =>
          /\ \A a \in heap : head[a] = ExtendFlag =>
               \A i \in Slots : pages[i] # Payload(a)
          /\ \A o \in objs : o.from = Ext =>
               /\ RawOf(o.addr) \in heap
               /\ head[RawOf(o.addr)] = ExtendFlag
          /\ \A t \in Threads :
               (pc[t] = "head" /\ head[RawOf(ptr[t])] = ExtendFlag) =>
                 /\ RawOf(ptr[t]) \in heap
                 /\ \A o \in objs : o.addr # ptr[t]
                 /\ \A u \in Threads \ {t} : ptr[u] # ptr[t])

\* C11 witness: an overflow block has been released, no call is in progress, the
\* mask is full, every slot holds a live object and another overflow object
\* is live
C11_Witness ==
  /\ alive /\ extFreed /\ bits = Full
  /\ \A t \in Threads : pc[t] = "idle"
  /\ \A i \in Slots : Live(i)
  /\ \E o \in objs : o.from = Ext

\* C12: the page of a slot is placed one head past the block std::malloc just
\* returned; the destruction of the pool releases, for every slot whose page
\* was materialized, the block at the page address minus one head, allocated
\* until then, and nothing else; these are as many blocks as std::malloc calls
\* were made for pages, at most one per slot whatever the number of Allocate
\* calls; nothing is released after the destruction.
C12_TeardownReleasesPages ==
  /\ [][/\ \A i \in Slots :
            (pages[i] = NULL /\ pages'[i] # NULL) =>
              /\ heap' \ heap = {pages'[i] - PageOffset}
              /\ heap \subseteq heap'
        /\ (alive /\ ~alive') =>
              /\ \A i \in Slots : pages[i] # NULL => pages[i] - PageOffset \in heap
              /\ heap' \subseteq heap
              /\ heap \ heap' =
                   {a \in RawAddrs : \E i \in Slots : pages[i] = a + PageOffset}
              /\ Cardinality(heap \ heap') = nPageAlloc
              /\ Cardinality(heap \ heap') = Cardinality({i \in Slots : pages[i] # NULL})
        /\ ~alive => heap' = heap]_vars
  /\ [](nPageAlloc <= NSlots /\ (nAlloc < MaxCount => nPageAlloc <= nAlloc + NThreads))

\* C12 witness: the pool was destroyed after more Allocate calls returned a slot
\* object than there are slots, all of them from slot 0: one block was released,
\* slot 1 was never materialized
C12_Witness ==
  /\ ~alive /\ nAlloc = MaxCount /\ nAlloc > NSlots
  /\ nPageAlloc = 1 /\ pages[0] # NULL /\ pages[1] = NULL
  /\ pages[0] - PageOffset \notin heap

\* C13: the destruction of the pool destructs no object (the objects still in
\* the slots stay constructed while their page is released, whether the bit of
\* the slot is set or not, and the mask is left as it is) and releases no block
\* of an overflow object: the blocks of the overflow objects not deallocated
\* stay allocated, with their head, from then on.
C13_TeardownDestructsNothing ==
  /\ [][(alive /\ ~alive') =>
          /\ UNCHANGED <<objs, bits, pages>>
          /\ \A i \in Slots : pages[i] # NULL => RawOf(pages[i]) \notin heap'
          /\ \A o \in objs : o.from = Ext =>
               /\ RawOf(o.addr) \in heap'
               /\ head'[RawOf(o.addr)] = ExtendFlag]_vars
  /\ [](~alive =>
          /\ \A o \in objs : o.from = Ext =>
               RawOf(o.addr) \in heap /\ head[RawOf(o.addr)] = ExtendFlag
          /\ \A o \in objs : o.from \in Slots =>
               o.from \in bits /\ RawOf(o.addr) \notin heap)
  /\ [][~alive => UNCHANGED <<objs, heap, bits>>]_vars

\* C13 witness: the pool is destroyed while slot 0 holds an object, slot 1 is
\* materialized and free, and an overflow object is not deallocated: both pages
\* are released, the overflow block is not
C13_Witness ==
  /\ ~alive /\ bits = {0}
  /\ \E o \in objs : o.from = 0 /\ o.addr = pages[0] /\ RawOf(o.addr) \notin heap
  /\ pages[1] # NULL /\ RawOf(pages[1]) \notin heap
  /\ \E o \in objs : o.from = Ext /\ RawOf(o.addr) \in heap

\* C14 (as stated): Allocate never returns without a valid object, also when
\* the raw allocator fails: every object a call has returned lies one head past
\* the start of an allocated block.
C14_NeverReturnsInvalid ==
  alive => \A o \in objs : o.addr # Payload(NULL) /\ RawOf(o.addr) \in heap

\* C15: no step of a call waits on another thread: wherever the other threads
\* stand, a thread inside Allocate or Deallocate can take its next step (the
\* steps that call the raw allocator, as long as it has a block to give);
\* Deallocate ends with the one step that follows its destructor; and a
\* compare-and-set fails only when the mask differs from the value the call
\* read, each failure being preceded by a change another thread made to the mask
\* that no earlier failure of the call accounts for.
C15_NeverWaits ==
  /\ [](\A t \in Threads :
          /\ pc[t] = "load" => ENABLED Load(t)
          /\ pc[t] = "loop" => ENABLED Loop(t)
          /\ pc[t] = "cas" => ENABLED Cas(t)
          /\ pc[t] = "reload" => ENABLED Reload(t)
          /\ pc[t] = "cons" => ENABLED Construct(t)
          /\ pc[t] = "page" =>
               \/ ENABLED Construct(t)
               \/ FreeRaw(heap) # {} => ENABLED Materialize(t)
          /\ pc[t] = "head" => (ENABLED DeallocSlot(t) \/ ENABLED DeallocExtend(t)))
  /\ [][\A t \in Threads :
          /\ (pc[t] = "head" /\ Moved(t)) => pc'[t] = "idle"
          /\ (pc[t] = "cas" /\ pc'[t] = "reload") =>
               /\ bits # bit[t]
               /\ fails[t] < MaxCount => chg[t] > fails[t]
          /\ (pc[t] = "cas" /\ pc'[t] = "page") => bits = bit[t]]_vars

\* C15 witness: one thread is stopped in Deallocate between the destructor and
\* the bit clear, a second one in Allocate between its compare-and-set and the
\* construction, and a third one has just failed a compare-and-set on account
\* of a change of the mask
C15_Witness ==
  /\ \E t \in Threads : pc[t] = "head" /\ head[RawOf(ptr[t])] # ExtendFlag
  /\ \E u \in Threads : pc[u] = "page"
  /\ \E v \in Threads : pc[v] = "reload" /\ fails[v] = 1 /\ chg[v] >= 1

\* C16: on the slot path and on the overflow path, the step by which Allocate
\* returns adds one object whose field is the argument of the call, whatever
\* the storage held before; no other step writes the field of a live object.
C16_ConstructedFromArgs ==
  [][\A t \in Threads :
       /\ (InAllocate(pc[t]) /\ pc'[t] = "idle") =>
            /\ arg[t] \in Args
            /\ \E o \in objs' \ objs :
                 /\ objs' = objs \cup {o}
                 /\ field'[o.addr] = arg[t]
                 /\ (pc[t] = "ext") <=> (o.from = Ext)
       /\ \A o \in objs \cap objs' : field'[o.addr] = field[o.addr]]_vars

\* C16 witness: slot 0 holds an object constructed from 3 in a page that held
\* an object constructed from 4, and an overflow object constructed from 4 is
\* live
C16_Witness ==
  /\ alive /\ Live(0) /\ field[pages[0]] = 3 /\ over = 4
  /\ \A t \in Threads : pc[t] = "idle"
  /\ \E o \in objs : o.from = Ext /\ field[o.addr] = 4

\* C17: within one Allocate call the scan index never decreases and moves by
\* at most one per step; a failed compare-and-set keeps the index, and the
\* reload that follows it takes the mask as it is then and keeps the index if
\* bit i is unset in it, else moves to i + 1; a bit set in the local copy is
\* passed without reloading, a bit unset in it leads to the compare-and-set on
\* that same index.
C17_ScanNeverGoesBack ==
  [][\A t \in Threads :
       /\ (Scanning(pc[t]) /\ InAllocate(pc'[t])) =>
            idx'[t] \in {idx[t], idx[t] + 1}
       /\ (pc[t] = "cas" /\ pc'[t] = "reload") =>
            idx'[t] = idx[t] /\ bits' = bits
       /\ (pc[t] = "reload" /\ Moved(t)) =>
            /\ pc'[t] = "loop"
            /\ bit'[t] = bits /\ bits' = bits
            /\ idx'[t] = IF idx[t] \in bits THEN idx[t] + 1 ELSE idx[t]
       /\ (pc[t] = "loop" /\ Moved(t) /\ idx[t] < NSlots) =>
            /\ bit'[t] = bit[t]
            /\ IF idx[t] \in bit[t]
                 THEN pc'[t] = "loop" /\ idx'[t] = idx[t] + 1
                 ELSE pc'[t] = "cas" /\ idx'[t] = idx[t]]_vars

\* C17 witness: a call has failed two compare-and-sets and is about to attempt
\* one on bit 1: it has retried one bit after a reload that showed it unset and
\* has left bit 0 after a reload that showed it set
C17_Witness ==
  \E t \in Threads :
    /\ pc[t] = "cas" /\ idx[t] = 1 /\ fails[t] = 2
    /\ 0 \in bit[t] /\ 1 \notin bit[t]

\* thread t is in Deallocate of the object of slot i, between the start of the
\* destructor and the bit clear
Destructing(t, i) == pc[t] = "head" /\ pages[i] # NULL /\ ptr[t] = pages[i]

\* C18: the destructor step of Deallocate leaves the mask as it is, with the
\* bit of the slot set; from then to the bit clear no other thread claims bit
\* i, materializes the page of slot i or constructs in it; a bit is cleared only
\* by the Deallocate of the object of its slot, after its destructor, and a bit
\* is claimed only when no Deallocate of its slot is under way.
C18_DestructBeforeClear ==
  /\ [][\A i \in Slots :
          /\ \A t \in Threads :
               (pc[t] = "idle" /\ Destructing(t, i)') =>
                 /\ bits' = bits /\ i \in bits
                 /\ \E o \in objs : o.addr = pages[i] /\ o \notin objs'
          /\ (\E u \in Threads : Destructing(u, i) /\ Destructing(u, i)') =>
               /\ i \in bits /\ i \in bits'
               /\ pages'[i] = pages[i]
               /\ \A o \in objs' : o.addr # pages[i]
               /\ \A t \in Threads :
                    idx'[t] = i => pc'[t] \notin {"page", "cons"}
          /\ (i \in bits /\ i \notin bits') =>
               \E u \in Threads :
                 Destructing(u, i) /\ pc'[u] = "idle" /\ ~Live(i)
          /\ (i \notin bits /\ i \in bits') =>
               /\ \A u \in Threads : ~Destructing(u, i)
               /\ ~Live(i)]_vars

\* C18 witness: a call has claimed bit 0 again, after the object that was in
\* the page of slot 0 was deallocated, while the Deallocate of the object of
\* slot 1 stands between its destructor and its bit clear
C18_Witness ==
  /\ \E t \in Threads : pc[t] = "page" /\ idx[t] = 0 /\ pages[0] # NULL
  /\ \E u \in Threads : Destructing(u, 1) /\ 1 \in bits

\* C19: in every reachable state, in the middle of concurrent calls too, a live
\* object in the page of slot i implies that bit i is set, so the set bits are
\* at least as many as the live objects of the slots; and a bit gets set only by
\* the compare-and-set of a call whose index is that bit, which found the mask
\* equal to its local copy with the bit unset, and sets that bit alone.
C19_LiveImpliesBit ==
  /\ [](/\ \A i \in Slots : Live(i) => i \in bits
        /\ \A o \in objs : o.from \in Slots => o.from \in bits
        /\ Cardinality(bits) >= Cardinality({o \in objs : o.from \in Slots}))
  /\ [][\A i \in Slots :
          (i \notin bits /\ i \in bits') =>
            /\ bits' = bits \cup {i}
            /\ \E t \in Threads :
                 /\ pc[t] = "cas" /\ pc'[t] = "page"
                 /\ idx[t] = i /\ bit[t] = bits]_vars

\* C19 witness: slot 1 holds a live object, a call that claimed bit 0 has
\* materialized the page and not constructed yet, and a call that fits a page
\* found both bits set and went to the overflow path: two bits set, one live
\* object
C19_Witness ==
  /\ alive /\ Live(1) /\ ~Live(0) /\ bits = Full
  /\ \E t \in Threads : pc[t] = "cons" /\ idx[t] = 0
  /\ \E u \in Threads : pc[u] = "ext" /\ sz[u] = PageSize

\* C20 (as stated): every address Allocate<T> returns, on the slot path and on
\* the overflow path, is a multiple of alignof(T), the raw block being aligned
\* and the object placed one head past its start.
C20_ReturnedAligned ==
  [][\A t \in Threads :
       (InAllocate(pc[t]) /\ pc'[t] = "idle") =>
         \A o \in objs' \ objs :
           AlignedTo(RawOf(o.addr), al[t]) => AlignedTo(o.addr, al[t])]_vars

\* the shape of the pool's members and of the threads' positions
TypeOK ==
  /\ bits \subseteq Slots
  /\ pages \in [Slots -> {NULL, Payload(NULL)} \cup {Payload(a) : a \in RawAddrs}]
  /\ heap \subseteq RawAddrs
  /\ pc \in [Threads -> {"idle", "load", "loop", "cas", "reload", "page", "cons", "ext",
                         "head", "fatal"}]
====
